---- MODULE Spec2Model ----
(***************************************************************************)
(* Model of nautobot_device_onboarding/nornir_plays/formatter.py:          *)
(* the result formatter (format_results), the IOS / NX-OS platform         *)
(* normalizers (format_ios_results, format_nxos_results) and the           *)
(* extraction driver (extract_show_data, perform_data_extraction).         *)
(*                                                                         *)
(* Python values are modelled as follows.                                  *)
(*   dict            a function whose domain is the set of keys; {} is <<>> *)
(*   list            a sequence                                            *)
(*   None (serial)   the string "None"                                     *)
(*   interface name  a pair <<type, number>>, e.g. <<"Gi", "0/1">> for     *)
(*                   "Gi0/1", so that prefix tests and the canonical name   *)
(*                   are computed and not looked up                         *)
(*   raw field value [t |-> "list" | "dict" | "none", v |-> sequence]:     *)
(*                   a list, a bare mapping (v holds it) or None            *)
(***************************************************************************)
EXTENDS Integers, Sequences, FiniteSets, TLC

VARIABLES
    compiled_results,   \* device name -> device record (the mapping format_results mutates)
    inventory,          \* device name -> serial held by the inventory, or DoesNotExist
    platform,           \* format_results' local variable `platform`
    idx,                \* position of the for loop of format_results in `order`
    pc,                 \* "loop" while format_results iterates, "returned" after its return
    input,              \* compiled_results as passed to format_results
    order,              \* iteration order of compiled_results.items()
    normalizer_result,  \* device name -> value returned by the platform normalizer (discarded by the caller)
    raised,             \* device name -> exception raised inside format_results' try block for the device
    platform_parsing_info,  \* host.data["platform_parsing_info"]: the field map the hosts share
    parsing_info_before,    \* the field map as it was before the first extract_show_data call
    calls,              \* number of extract_show_data calls made
    last_call           \* host, task result and outcome of the last extract_show_data call

evars == <<platform_parsing_info, parsing_info_before, calls, last_call>>

fvars == <<compiled_results, inventory, platform, idx, pc, input, order,
           normalizer_result, raised>>

-----------------------------------------------------------------------------
(* Bounds *)

MaxFacts == 2       \* per-interface attribute items in one device aggregate
MaxDevices == 2     \* devices in one compiled_results mapping (multi-device specification)
MaxCalls == 2       \* extract_show_data calls in one run

-----------------------------------------------------------------------------
(* dict helpers *)

Has(f, k) == k \in DOMAIN f

Put(f, k, v) == [x \in (DOMAIN f) \cup {k} |-> IF x = k THEN v ELSE f[x]]

Del(f, k) == [x \in (DOMAIN f) \ {k} |-> f[x]]

Update(f, g) == [x \in (DOMAIN f) \cup (DOMAIN g) |-> IF x \in DOMAIN g THEN g[x] ELSE f[x]]

EmptyDict == <<>>

None == "None"

NoExc == ""

\* an element None inside a list (ensure_list(None) = [None])
PyNoneItem == [py_none |-> TRUE]

IsNone(item) == Has(item, "py_none")

PyList(s) == [t |-> "list", v |-> s]

PyDict(m) == [t |-> "dict", v |-> <<m>>]

PyNone == [t |-> "none", v |-> <<>>]

ensure_list(data) ==
    IF data.t = "list" THEN data.v
    ELSE IF data.t = "dict" THEN data.v
    ELSE <<PyNoneItem>>

\* device.get(key, []) followed by ensure_list
GetList(device, key) ==
    IF Has(device, key) THEN ensure_list(device[key]) ELSE <<>>

\* device.get(key, []), None replaced by [], then ensure_list (vrfs, vrf_rds, vrf_interfaces)
GetListOrNone(device, key) ==
    IF ~Has(device, key) THEN <<>>
    ELSE IF device[key].t = "none" THEN <<>>
    ELSE ensure_list(device[key])

-----------------------------------------------------------------------------
(* netutils.interface.canonical_interface_name and the interface type map *)

BASE_INTERFACES ==
    [Gi |-> "GigabitEthernet", GigabitEthernet |-> "GigabitEthernet",
     Eth |-> "Ethernet", Ethernet |-> "Ethernet",
     Vl |-> "Vlan", Vlan |-> "Vlan"]

canonical_interface_name(interface) ==
    IF interface[1] \in DOMAIN BASE_INTERFACES
    THEN <<BASE_INTERFACES[interface[1]], interface[2]>>
    ELSE interface

\* canonical_name.startswith("VLAN") / canonical_name.replace("VLAN", "Vlan", 1)
VrfCanonicalName(interface) ==
    LET canonical_name == canonical_interface_name(interface)
    IN  IF canonical_name[1] = "VLAN" THEN <<"Vlan", canonical_name[2]>> ELSE canonical_name

INTERFACE_TYPE_MAP_STATIC ==
    [ethernetCsmacd |-> "1000base-t", portChannel |-> "lag"]

map_interface_type(interface_type) ==
    IF interface_type \in DOMAIN INTERFACE_TYPE_MAP_STATIC
    THEN INTERFACE_TYPE_MAP_STATIC[interface_type]
    ELSE "other"

-----------------------------------------------------------------------------
(* Exceptions: [type, arg]; str(e) of a KeyError is its quoted key *)

Exc(type, arg) == [type |-> type, arg |-> arg]

NoException == Exc(NoExc, NoExc)

KeyError(key) == Exc("KeyError", key)

TypeErrorNone == Exc("TypeError", "'NoneType' object is not subscriptable")

-----------------------------------------------------------------------------
(* interface_dict: an insertion-ordered dict, interface name -> interface info *)

EmptyOrdered == [keys |-> <<>>, val |-> EmptyDict]

setdefault(D, k) ==
    IF k \in DOMAIN D.val THEN D
    ELSE [keys |-> Append(D.keys, k), val |-> Put(D.val, k, EmptyDict)]

SetInfo(D, k, info) == [D EXCEPT !.val = Put(D.val, k, info)]

\* state of a normalizer inside its outer try block
Raise(st, e) == [st EXCEPT !.exc = e]

RECURSIVE FoldItems(_, _, _, _)
\* for item in list: the loop body named by `loop` (ItemStep below), abandoned at the first
\* exception; arg is what the body uses besides the item (the field, the vrf)

ValueKey(field) == IF field = "ip_addresses" THEN "ip_address" ELSE field

\* one iteration of the loops over mtu_list .. link_status_list
AttrStep(st, item, field) ==
    IF IsNone(item) THEN Raise(st, TypeErrorNone)
    ELSE IF ~Has(item, ValueKey(field)) THEN Raise(st, KeyError(ValueKey(field)))
    ELSE IF ~Has(item, "interface") THEN Raise(st, KeyError("interface"))
    ELSE LET D == setdefault(st.d, item.interface)
             info == D.val[item.interface]
             v == item[ValueKey(field)]
             newinfo ==
                 CASE field = "type" -> Put(info, "type", map_interface_type(v))
                   [] field = "ip_addresses" -> Put(info, "ip_addresses", [ip_address |-> v])
                   [] field = "prefix_length" ->
                        Put(info, "ip_addresses",
                            Put(IF Has(info, "ip_addresses") THEN info.ip_addresses ELSE EmptyDict,
                                "prefix_length", v))
                   [] field = "link_status" -> Put(info, "link_status", v = "up")
                   [] OTHER -> Put(info, field, v)
         IN  [st EXCEPT !.d = SetInfo(D, item.interface, newinfo)]

AttrFields ==
    <<"mtu", "type", "ip_addresses", "prefix_length", "mac_address", "description", "link_status">>

RECURSIVE AttrLoops(_, _, _)
\* the loops over the seven attribute lists, in source order
AttrLoops(st, device, fields) ==
    IF fields = <<>> THEN st
    ELSE AttrLoops(FoldItems("attr", Head(fields), st, GetList(device, Head(fields))),
                   device, Tail(fields))

\* for interface in interface_dict.values(): interface.setdefault(key, default)
ApplyDefaults(D, default_values) ==
    [D EXCEPT !.val = [k \in DOMAIN D.val |-> Update(default_values, D.val[k])]]

\* data["ip_addresses"] = [ip_addresses] when the merged mapping is not empty
WrapIpAddresses(D) ==
    [D EXCEPT !.val = [k \in DOMAIN D.val |->
        IF Has(D.val[k], "ip_addresses") /\ D.val[k].ip_addresses # EmptyDict
        THEN Put(D.val[k], "ip_addresses", <<D.val[k].ip_addresses>>)
        ELSE D.val[k]]]

\* interface_list: built from the keys interface_dict has when the list is made; every
\* element holds a reference to the info mapping, so it shows the later writes to it
InterfaceList(listKeys, D) ==
    [i \in 1..Len(listKeys) |-> (canonical_interface_name(listKeys[i]) :> D.val[listKeys[i]])]

\* interface_dict.setdefault(canonical_name, {}); interface_dict[canonical_name]["vrf"] = {...}
VrfMemberStep(st, interface, vrf) ==
    IF ~Has(vrf, "name") THEN Raise(st, KeyError("name"))
    ELSE IF ~Has(vrf, "default_rd") THEN Raise(st, KeyError("default_rd"))
    ELSE LET canonical_name == VrfCanonicalName(interface)
             D == setdefault(st.d, canonical_name)
         IN  [st EXCEPT !.d = SetInfo(D, canonical_name,
                    Put(D.val[canonical_name], "vrf", [name |-> vrf.name, rd |-> vrf.default_rd]))]

RECURSIVE DelKeys(_, _)
\* del device[k] for k in keys, stopped by the first KeyError
DelKeys(device, keys) ==
    IF keys = <<>> THEN [device |-> device, exc |-> NoException]
    ELSE IF ~Has(device, Head(keys)) THEN [device |-> device, exc |-> KeyError(Head(keys))]
    ELSE DelKeys(Del(device, Head(keys)), Tail(keys))

-----------------------------------------------------------------------------
(* Loop bodies of format_ios_results and format_nxos_results *)

IosDefaultValues ==
    ("lag" :> "" @@ "untagged_vlan" :> EmptyDict @@ "tagged_vlans" :> <<>> @@
     "vrf" :> EmptyDict @@ "802.1Q_mode" :> "")

IosModeStep(st, item) ==
    IF IsNone(item) THEN Raise(st, TypeErrorNone)
    ELSE IF ~Has(item, "interface") THEN Raise(st, KeyError("interface"))
    ELSE IF ~Has(item, "vlan_id") THEN Raise(st, KeyError("vlan_id"))
    ELSE LET canonical_name == canonical_interface_name(item.interface)
             D == setdefault(st.d, canonical_name)
         IN  [st EXCEPT !.d = SetInfo(D, canonical_name,
                    Put(D.val[canonical_name], "802.1Q_mode",
                        IF item.vlan_id = "trunk" THEN "tagged" ELSE "access"))]

IosVrfStep(st, vrf) ==
    IF IsNone(vrf) THEN Raise(st, TypeErrorNone)
    ELSE IF ~Has(vrf, "interfaces") THEN Raise(st, KeyError("interfaces"))
    ELSE FoldItems("vrf_member", vrf, st, vrf.interfaces)

NxosModeStep(st, item) ==
    IF IsNone(item) THEN Raise(st, TypeErrorNone)
    ELSE IF ~Has(item, "mode") THEN Raise(st, KeyError("mode"))
    ELSE IF ~Has(item, "interface") THEN Raise(st, KeyError("interface"))
    ELSE LET D == setdefault(st.d, item.interface)
         IN  [st EXCEPT !.d = SetInfo(D, item.interface,
                    Put(D.val[item.interface], "802.1Q_mode",
                        IF item.mode = "access" THEN "access"
                        ELSE IF item.mode = "trunk" THEN "tagged" ELSE ""))]

\* vrf_dict = {vrf["id"]: vrf for vrf in vrfs_rds}
VrfDictStep(st, vrf) ==
    IF IsNone(vrf) THEN Raise(st, TypeErrorNone)
    ELSE IF ~Has(vrf, "id") THEN Raise(st, KeyError("id"))
    ELSE LET V == setdefault(st.vrf_dict, vrf.id)
         IN  [st EXCEPT !.vrf_dict = SetInfo(V, vrf.id, vrf)]

\* vrf_dict[vrf_id]["interfaces"].append(interface["interface"])
VrfInterfaceStep(st, interface) ==
    IF IsNone(interface) THEN Raise(st, TypeErrorNone)
    ELSE IF ~Has(interface, "id") THEN Raise(st, KeyError("id"))
    ELSE IF ~Has(st.vrf_dict.val, interface.id) THEN Raise(st, KeyError(interface.id))
    ELSE LET vrf == st.vrf_dict.val[interface.id]
             withList == IF Has(vrf, "interfaces") THEN vrf ELSE Put(vrf, "interfaces", <<>>)
         IN  IF ~Has(interface, "interface")
             THEN [st EXCEPT !.exc = KeyError("interface"),
                             !.vrf_dict = SetInfo(st.vrf_dict, interface.id, withList)]
             ELSE [st EXCEPT !.vrf_dict = SetInfo(st.vrf_dict, interface.id,
                        Put(withList, "interfaces", Append(withList.interfaces, interface.interface)))]

\* for vrf in vrf_list: if "interfaces" in vrf: for interface in vrf["interfaces"]: ...
NxosVrfStep(st, vrf_id) ==
    LET vrf == st.vrf_dict.val[vrf_id]
    IN  IF ~Has(vrf, "interfaces") THEN st
        ELSE FoldItems("vrf_member", vrf, st, vrf.interfaces)

\* one iteration of the loop `loop`
ItemStep(loop, arg, st, item) ==
    CASE loop = "attr" -> AttrStep(st, item, arg)
      [] loop = "ios_mode" -> IosModeStep(st, item)
      [] loop = "ios_vrf" -> IosVrfStep(st, item)
      [] loop = "vrf_member" -> VrfMemberStep(st, item, arg)
      [] loop = "nxos_mode" -> NxosModeStep(st, item)
      [] loop = "vrf_dict" -> VrfDictStep(st, item)
      [] loop = "vrf_interface" -> VrfInterfaceStep(st, item)
      [] loop = "nxos_vrf" -> NxosVrfStep(st, item)

FoldItems(loop, arg, st, list) ==
    IF list = <<>> \/ st.exc # NoException THEN st
    ELSE FoldItems(loop, arg, ItemStep(loop, arg, st, Head(list)), Tail(list))

-----------------------------------------------------------------------------
(* format_ios_results *)

IosDeletedKeys ==
    <<"mtu", "type", "ip_addresses", "prefix_length", "mac_address", "description",
      "link_status", "vrfs", "mode">>

\* serial = device.get("serial")
SerialOf(device) == IF Has(device, "serial") THEN device.serial ELSE None

\* the defaults loop and the wrapping of ip_addresses, not reached after an exception
Defaulted(st, default_values) ==
    IF st.exc # NoException THEN st
    ELSE [st EXCEPT !.d = WrapIpAddresses(ApplyDefaults(st.d, default_values))]

\* device["interfaces"] = interface_list; device["serial"] = serial
Assigned(device, listKeys, D) ==
    Put(Put(device, "interfaces", InterfaceList(listKeys, D)), "serial", SerialOf(device))

\* What the call leaves: `device` is the record the caller holds (the argument object after
\* the call), `ret` the value returned, `exc` the exception the function caught. st is the
\* state at the end of the assembly, deleted the outcome of the del statements.
IosOutcome(device, st, deleted) ==
    IF st.exc # NoException
    THEN [device |-> device,
          ret |-> [failed |-> TRUE,
                   failed_reason |-> [text |-> <<"Formatting error 1 ", st.exc.arg, " for device ">>,
                                      device |-> device]],
          exc |-> st.exc]
    ELSE IF deleted.exc # NoException
    THEN [device |-> deleted.device,
          ret |-> [failed |-> TRUE,
                   failed_reason |-> [text |-> <<"Formatting error 2 for device ">>,
                                      device |-> deleted.device]],
          exc |-> deleted.exc]
    ELSE [device |-> deleted.device, ret |-> deleted.device, exc |-> NoException]

\* the assignments to device and the del statements
IosCleanup(device, listKeys, st) ==
    IosOutcome(device, st, DelKeys(Assigned(device, listKeys, st.d), IosDeletedKeys))

\* interface_list is made from the keys of st.d, then the VRF loop runs
IosVrfMerge(device, st) ==
    IosCleanup(device, st.d.keys, FoldItems("ios_vrf", "vrfs", st, GetListOrNone(device, "vrfs")))

format_ios_results(device) ==
    IosVrfMerge(device,
        Defaulted(FoldItems("ios_mode", "mode",
                            AttrLoops([exc |-> NoException, d |-> EmptyOrdered], device, AttrFields),
                            GetList(device, "mode")),
                  IosDefaultValues))

-----------------------------------------------------------------------------
(* format_nxos_results *)

NxosDefaultValues ==
    ("lag" :> "" @@ "untagged_vlan" :> EmptyDict @@ "tagged_vlans" :> <<>> @@ "vrf" :> EmptyDict)

\* device["vrf_rds"] after the call: the vrf mappings are the objects vrf_dict holds, so the
\* "interfaces" lists added to them are visible through the caller's record
MutatedVrfRds(device, vrf_dict) ==
    IF ~Has(device, "vrf_rds") THEN device
    ELSE LET rds == device.vrf_rds.v
             IsLast(i) == ~\E j \in (i + 1)..Len(rds) :
                              Has(rds[j], "id") /\ rds[j].id = rds[i].id
         IN  Put(device, "vrf_rds",
                 [device.vrf_rds EXCEPT !.v =
                     [i \in 1..Len(rds) |->
                         IF Has(rds[i], "id") /\ Has(vrf_dict.val, rds[i].id) /\ IsLast(i)
                         THEN vrf_dict.val[rds[i].id] ELSE rds[i]]])

NxosDeletedKeys ==
    <<"mtu", "type", "ip_addresses", "prefix_length", "mac_address", "description",
      "link_status", "mode", "vrf_rds", "vrf_interfaces">>

\* what the call leaves, as IosOutcome; mutated is the caller's record with the writes to
\* its vrf_rds mappings
NxosOutcome(mutated, st, deleted) ==
    IF st.exc # NoException
    THEN [device |-> mutated,
          ret |-> [failed |-> TRUE,
                   failed_reason |-> [text |-> <<"Formatting error for device ">>, device |-> mutated]],
          exc |-> st.exc]
    ELSE IF deleted.exc # NoException
    THEN [device |-> deleted.device,
          ret |-> [failed |-> TRUE,
                   failed_reason |-> [text |-> <<"Formatting error for device ">>,
                                      device |-> deleted.device]],
          exc |-> deleted.exc]
    ELSE [device |-> deleted.device, ret |-> deleted.device, exc |-> NoException]

NxosCleanup(mutated, listKeys, st) ==
    NxosOutcome(mutated, st, DelKeys(Assigned(mutated, listKeys, st.d), NxosDeletedKeys))

\* vrf_list = list(vrf_dict.values()); for vrf in vrf_list: ...
NxosVrfList(st) == FoldItems("nxos_vrf", "vrf_dict", st, st.vrf_dict.keys)

NxosVrfLoops(device, listKeys, st) ==
    NxosCleanup(MutatedVrfRds(device, st.vrf_dict), listKeys, st)

\* interface_list is made from the keys of st.d, then vrf_dict is built and the VRF loops run
NxosVrfMerge(device, st) ==
    NxosVrfLoops(device, st.d.keys,
        NxosVrfList(FoldItems("vrf_interface", "vrf_interfaces",
                              FoldItems("vrf_dict", "vrf_rds", st, GetListOrNone(device, "vrf_rds")),
                              GetListOrNone(device, "vrf_interfaces"))))

format_nxos_results(device) ==
    NxosVrfMerge(device,
        Defaulted(FoldItems("nxos_mode", "mode",
                            AttrLoops([exc |-> NoException, d |-> EmptyOrdered, vrf_dict |-> EmptyOrdered],
                                      device, AttrFields),
                            GetList(device, "mode")),
                  NxosDefaultValues))

-----------------------------------------------------------------------------
(* format_results *)

Unbound == "<unbound>"

DoesNotExist == "<DoesNotExist>"

UnboundLocalError == Exc("UnboundLocalError", "local variable 'platform' referenced before assignment")

DeviceDoesNotExist == Exc("DoesNotExist", "Device matching query does not exist.")

SupportedPlatforms == {"cisco_ios", "cisco_xe", "cisco_nxos"}

\* data.update({"failed": True, "failed_reason": reason}); a reason is the sequence of the
\* pieces of its f-string
MarkFailed(data, reason) == Update(data, [failed |-> TRUE, failed_reason |-> reason])

NotCalled == [called |-> FALSE, ret |-> EmptyDict, exc |-> NoException]

\* what format_results keeps of a normalizer call: the record, mutated in place
Called(r) ==
    [data |-> r.device, call |-> [called |-> TRUE, ret |-> r.ret, exc |-> r.exc]]

\* the dispatch to the platform normalizer; its return value is not used by format_results
CallNormalizer(data, plat) ==
    IF plat \in {"cisco_ios", "cisco_xe"} THEN Called(format_ios_results(data))
    ELSE IF plat = "cisco_nxos" THEN Called(format_nxos_results(data))
    ELSE [data |-> data, call |-> NotCalled]

\* except Exception as e: data.update({"failed": True, "failed_reason": f"Error formatting device: {e}"})
\* the exception classes of the model, all subclasses of Exception
ExceptionClasses ==
    {"KeyError", "TypeError", "UnboundLocalError", "DoesNotExist", "UndefinedError"}

\* a handler that takes KeyError only
Handler_OnlyKeyError(data, plat, e) ==
    IF e.type = "KeyError"
    THEN [data |-> MarkFailed(data, <<"Error formatting device: ", e.arg>>),
          platform |-> plat, exc |-> e, call |-> NotCalled, propagates |-> FALSE]
    ELSE [data |-> data, platform |-> plat, exc |-> e, call |-> NotCalled, propagates |-> TRUE]

Handler(data, plat, e) ==
    IF e.type \in ExceptionClasses
    THEN [data |-> MarkFailed(data, <<"Error formatting device: ", e.arg>>),
          platform |-> plat, exc |-> e, call |-> NotCalled, propagates |-> FALSE]
    ELSE [data |-> data, platform |-> plat, exc |-> e, call |-> NotCalled, propagates |-> TRUE]

\* the end of the try block after the normalizer call
Normalized(r, plat) ==
    [data |-> r.data, platform |-> plat, exc |-> NoException, call |-> r.call,
     propagates |-> FALSE]

\* the normalizer called on the record as it was before the serial was written
TypeBranch_SerialNotWritten(data, plat, lookup) ==
    IF lookup = DoesNotExist THEN Handler(data, plat, DeviceDoesNotExist)
    ELSE Normalized(CallNormalizer(IF lookup = ""
                                   THEN MarkFailed(data, <<"Serial not found for device in Nautobot.">>)
                                   ELSE data,
                                   plat),
                    plat)

\* the "type" in data branch: serial lookup, then the normalizer
TypeBranch(data, plat, lookup) ==
    IF lookup = DoesNotExist THEN Handler(data, plat, DeviceDoesNotExist)
    ELSE Normalized(CallNormalizer(IF lookup = ""
                                   THEN MarkFailed(data, <<"Serial not found for device in Nautobot.">>)
                                   ELSE Put(data, "serial", lookup),
                                   plat),
                    plat)

\* the try block once `platform` has its value for the device
Dispatch(data, lookup, platform1) ==
    IF platform1 = Unbound THEN Handler(data, platform1, UnboundLocalError)
    ELSE IF platform1 \notin SupportedPlatforms
    THEN IF Has(data, "type")
         THEN TypeBranch(MarkFailed(data, <<"Unsupported platform ", platform1>>), platform1, lookup)
         ELSE [data |-> MarkFailed(MarkFailed(data, <<"Unsupported platform ", platform1>>),
                                   <<"Cannot connect to device.">>),
               platform |-> platform1, exc |-> NoException, call |-> NotCalled,
               propagates |-> FALSE]
    ELSE IF Has(data, "type") THEN TypeBranch(data, platform1, lookup)
    ELSE [data |-> MarkFailed(data, <<"Cannot connect to device.">>),
          platform |-> platform1, exc |-> NoException, call |-> NotCalled,
          propagates |-> FALSE]

\* one iteration of the for loop: `data` is the device's record, `lookup` what
\* Device.objects.get(name=device).serial gives, `plat` the value of the local `platform`
LoopBody(data, lookup, plat) ==
    Dispatch(data, lookup, IF Has(data, "platform") THEN data.platform ELSE plat)

FormatDevice ==
    /\ pc = "loop"
    /\ idx <= Len(order)
    /\ \E device \in {order[idx]} :
          \E r \in {LoopBody(compiled_results[device], inventory[device], platform)} :
              /\ compiled_results' = [compiled_results EXCEPT ![device] = r.data]
              /\ platform' = r.platform
              /\ normalizer_result' = [normalizer_result EXCEPT ![device] = r.call]
              /\ raised' = [raised EXCEPT ![device] = r.exc]
              /\ pc' = IF r.propagates THEN "raised" ELSE pc
    /\ idx' = idx + 1
    /\ UNCHANGED <<inventory, input, order>>
    /\ UNCHANGED evars

\* return compiled_results
Return ==
    /\ pc = "loop"
    /\ idx > Len(order)
    /\ pc' = "returned"
    /\ UNCHANGED <<compiled_results, inventory, platform, idx, input, order,
                   normalizer_result, raised>>
    /\ UNCHANGED evars

-----------------------------------------------------------------------------
(* Inputs: the device aggregates handed to format_results *)

NameGi == <<"Gi", "0/1">>

NameGigabit == <<"GigabitEthernet", "0/1">>

NameVLAN == <<"VLAN", "10">>

NameVlan == <<"Vlan", "10">>

\* stands for an item that has no "interface" key
NoName == <<"", "">>

NameOrder == <<NameGi, NameGigabit, NameVLAN, NameVlan, NoName>>

Names == {NameGi, NameGigabit, NameVLAN, NameVlan}

ListFields ==
    {"mtu", "type", "ip_addresses", "prefix_length", "mac_address", "description",
     "link_status", "mode"}

\* a fact <<field, name>>: the field's list has an item for the interface
Facts ==
    ((ListFields \cup {"vrf"}) \X Names) \cup ({"mtu", "mode", "vrf"} \X {NoName})

RECURSIVE SubsetsUpTo(_, _)
SubsetsUpTo(S, n) ==
    IF n = 0 THEN {{}}
    ELSE LET prev == SubsetsUpTo(S, n - 1)
         IN  prev \cup {p \cup {x} : p \in prev, x \in S}

\* the value a command reports for an interface: Gi0/1 is an up trunk port of a mapped type
ValueOf(field, name, nxos) ==
    LET first == name = NameGi
    IN  CASE field = "mtu" -> IF first THEN 1500 ELSE 9000
          [] field = "type" -> IF first THEN "ethernetCsmacd" ELSE "propVirtual"
          [] field = "ip_addresses" -> IF first THEN "10.0.0.1" ELSE "10.0.0.2"
          [] field = "prefix_length" -> IF first THEN 24 ELSE 32
          [] field = "mac_address" -> IF first THEN "aa:aa" ELSE "bb:bb"
          [] field = "description" -> IF first THEN "uplink" ELSE "svi"
          [] field = "link_status" -> IF first THEN "up" ELSE "down"
          [] field = "mode" -> IF first THEN "trunk" ELSE IF nxos THEN "access" ELSE "10"

ItemKey(field, nxos) ==
    IF field = "mode" /\ ~nxos THEN "vlan_id" ELSE ValueKey(field)

ItemFor(field, name, nxos) ==
    IF name = NoName
    THEN (ItemKey(field, nxos) :> ValueOf(field, name, nxos))
    ELSE ("interface" :> name @@ ItemKey(field, nxos) :> ValueOf(field, name, nxos))

RECURSIVE NamesOf(_, _, _)
\* the names the facts give for a field, in NameOrder
NamesOf(facts, field, rest) ==
    IF rest = <<>> THEN <<>>
    ELSE (IF <<field, Head(rest)>> \in facts THEN <<Head(rest)>> ELSE <<>>)
         \o NamesOf(facts, field, Tail(rest))

ItemsOf(facts, field, nxos) ==
    LET ns == NamesOf(facts, field, NameOrder)
    IN  [i \in 1..Len(ns) |-> ItemFor(field, ns[i], nxos)]

VrfName == "mgmt"

VrfRd == "65000:1"

\* IOS: one VRF that lists its members; a fact without a name is a second VRF with no member list
IosVrfs(facts) ==
    LET ns == NamesOf(facts, "vrf", NameOrder)
        members == SelectSeq(ns, LAMBDA n : n # NoName)
    IN  (IF members = <<>> THEN <<>>
         ELSE <<[name |-> VrfName, default_rd |-> VrfRd, interfaces |-> members]>>)
        \o (IF <<"vrf", NoName>> \in facts THEN <<[name |-> "bad", default_rd |-> ""]>> ELSE <<>>)

\* NX-OS: the VRF table and the membership table joined by id; a fact without a name is a
\* membership row with no "interface"
NxosVrfRds(facts) ==
    IF NamesOf(facts, "vrf", NameOrder) = <<>> THEN <<>>
    ELSE <<[id |-> "1", name |-> VrfName, default_rd |-> VrfRd]>>

NxosVrfInterfaces(facts) ==
    LET ns == NamesOf(facts, "vrf", NameOrder)
    IN  [i \in 1..Len(ns) |->
            IF ns[i] = NoName THEN [id |-> "1"] ELSE [id |-> "1", interface |-> ns[i]]]

RawKeys(nxos) ==
    ListFields \cup (IF nxos THEN {"vrf_rds", "vrf_interfaces"} ELSE {"vrfs"})

RawItems(facts, key, nxos) ==
    CASE key = "vrfs" -> IosVrfs(facts)
      [] key = "vrf_rds" -> NxosVrfRds(facts)
      [] key = "vrf_interfaces" -> NxosVrfInterfaces(facts)
      [] OTHER -> ItemsOf(facts, key, nxos)

Shapes == {"all", "sparse", "bare", "vrfnone"}

\* how the extraction hands over a field: "all" every key as a list, "sparse" only the keys
\* that have items, "bare" a single item as a bare mapping, "vrfnone" empty VRF data as None
RawValue(items, key, shape) ==
    IF shape = "bare" /\ Len(items) = 1 THEN PyDict(items[1])
    ELSE IF shape = "vrfnone" /\ items = <<>> /\ key \in {"vrfs", "vrf_rds", "vrf_interfaces"}
    THEN PyNone
    ELSE PyList(items)

NoPlatformKey == "<no platform key>"

PlatformChoices == {"cisco_ios", "cisco_xe", "cisco_nxos", "arista_eos", NoPlatformKey}

DeviceInput(plat, facts, shape) ==
    LET nxos == plat = "cisco_nxos"
        keys == {k \in RawKeys(nxos) : shape # "sparse" \/ RawItems(facts, k, nxos) # <<>>}
        raw == [k \in keys |-> RawValue(RawItems(facts, k, nxos), k, shape)]
    IN  IF plat = NoPlatformKey THEN raw ELSE Put(raw, "platform", plat)

SerialChoices == {"", "SN1", DoesNotExist}

DeviceInputs ==
    {DeviceInput(plat, facts, shape) :
        plat \in PlatformChoices, facts \in SubsetsUpTo(Facts, MaxFacts), shape \in Shapes}

\* the aggregates of the multi-device specification
MultiDeviceInputs ==
    {DeviceInput(plat, c[1], c[2]) :
        plat \in PlatformChoices \ {"cisco_xe"},
        c \in {<<{<<"mtu", NameGi>>, <<"type", NameGi>>}, "all">>,
               <<{<<"mtu", NoName>>}, "all">>,
               <<{}, "sparse">>}}

-----------------------------------------------------------------------------
(* Values of command outputs and of extracted fields *)

VNone == [t |-> "none"]

VStr(s) == [t |-> "str", s |-> s]

VList(items) == [t |-> "list", items |-> items]

VDict(keys) == [t |-> "dict", keys |-> keys]

\* the text a template rendered from a value
VRendered(src, obj) == [t |-> "rendered", src |-> src, obj |-> obj]

\* Python truthiness; a rendering of "{{ obj }}" is empty only for the empty string
Truthy(v) ==
    CASE v.t = "none" -> FALSE
      [] v.t = "str" -> v.s # ""
      [] v.t = "list" -> v.items # <<>>
      [] v.t = "dict" -> v.keys # {}
      [] v.t = "rendered" -> ~(v.obj.t = "str" /\ v.obj.s = "")

-----------------------------------------------------------------------------
(* Template rendering (get_django_env: StrictUndefined) and the path query *)

UndefinedError == Exc("UndefinedError", "'undefined_var' is undefined")

JmesTypeError == Exc("TypeError", "JMSPath returned 'None'. Please, verify your JMSPath regex.")

\* a template: its source and the variables it references
Template(src, tvars) == [src |-> src, tvars |-> tvars]

\* template.render(context): with StrictUndefined a variable the context lacks is an error
Render(template, context) ==
    IF template.tvars \subseteq DOMAIN context
    THEN [exc |-> NoException, src |-> template.src]
    ELSE [exc |-> UndefinedError, src |-> template.src]

\* jdiff.extract_data_from_json: "*" is the document, a path the document lacks is a TypeError
extract_data_from_json(doc, jpath) ==
    IF jpath = "*" THEN [exc |-> NoException, value |-> VDict(DOMAIN doc)]
    ELSE IF jpath \in DOMAIN doc THEN [exc |-> NoException, value |-> doc[jpath]]
    ELSE [exc |-> JmesTypeError, value |-> VNone]

-----------------------------------------------------------------------------
(* perform_data_extraction *)

\* task_result.result: [kind |-> "obj" | "json" | "badjson", doc |-> document]; "json" is a
\* string json.loads decodes to doc, "badjson" a string it rejects
Extracted(task_result, jpath) ==
    IF task_result.result.kind = "badjson" THEN [exc |-> NoException, value |-> VNone]
    ELSE extract_data_from_json(task_result.result.doc, jpath)

\* the post_processor branch, or the singleton unwrap of the branch without one
Processed(show_command, extracted_value, host) ==
    IF Has(show_command, "post_processor")
    THEN LET r == Render(show_command.post_processor,
                         [obj |-> extracted_value, original_host |-> host])
         IN  [exc |-> r.exc, value |-> VRendered(r.src, extracted_value)]
    ELSE [exc |-> NoException,
          value |-> IF extracted_value.t = "list" /\ Len(extracted_value.items) = 1
                    THEN extracted_value.items[1] ELSE extracted_value]

\* the loop body with a falsy value written instead of skipped
CommandStep_FalsyStored(st, show_command, host, dict_field, command_info_dict, task_result) ==
    IF show_command.command # task_result.name THEN st
    ELSE LET jp == Render(show_command.jpath, [obj |-> host, original_host |-> host])
         IN  IF jp.exc # NoException THEN [st EXCEPT !.exc = jp.exc]
             ELSE IF task_result.failed THEN st
             ELSE LET ex == Extracted(task_result, jp.src)
                      pr == Processed(show_command, ex.value, host)
                  IN  IF ex.exc # NoException THEN [st EXCEPT !.exc = ex.exc]
                      ELSE IF pr.exc # NoException THEN [st EXCEPT !.exc = pr.exc]
                      ELSE IF Has(command_info_dict, "validator_pattern")
                              /\ command_info_dict.validator_pattern = "not None"
                      THEN [st EXCEPT !.result_dict = Put(@, dict_field, pr.value),
                                      !.stop = Truthy(pr.value)]
                      ELSE [st EXCEPT !.result_dict = Put(@, dict_field, pr.value)]

\* one iteration of the loop over command_info_dict["commands"];
\* st = [result_dict, exc, stop]: stop is the break
CommandStep(st, show_command, host, dict_field, command_info_dict, task_result) ==
    IF show_command.command # task_result.name THEN st
    ELSE LET jp == Render(show_command.jpath, [obj |-> host, original_host |-> host])
         IN  IF jp.exc # NoException THEN [st EXCEPT !.exc = jp.exc]
             ELSE IF task_result.failed THEN st
             ELSE LET ex == Extracted(task_result, jp.src)
                      pr == Processed(show_command, ex.value, host)
                  IN  IF ex.exc # NoException THEN [st EXCEPT !.exc = ex.exc]
                      ELSE IF pr.exc # NoException THEN [st EXCEPT !.exc = pr.exc]
                      ELSE IF Has(command_info_dict, "validator_pattern")
                              /\ command_info_dict.validator_pattern = "not None"
                      THEN IF ~Truthy(pr.value) THEN st
                           ELSE [st EXCEPT !.result_dict = Put(@, dict_field, pr.value),
                                           !.stop = TRUE]
                      ELSE [st EXCEPT !.result_dict = Put(@, dict_field, pr.value)]

RECURSIVE CommandLoop(_, _, _, _, _, _)
CommandLoop(st, commands, host, dict_field, command_info_dict, task_result) ==
    IF commands = <<>> \/ st.stop \/ st.exc # NoException THEN st
    ELSE CommandLoop(CommandStep(st, Head(commands), host, dict_field, command_info_dict, task_result),
                     Tail(commands), host, dict_field, command_info_dict, task_result)

perform_data_extraction(host, dict_field, command_info_dict, task_result) ==
    CommandLoop([result_dict |-> EmptyDict, exc |-> NoException, stop |-> FALSE],
                command_info_dict.commands.v, host, dict_field, command_info_dict, task_result)

-----------------------------------------------------------------------------
(* extract_show_data *)

\* if isinstance(command_info["commands"], dict): command_info["commands"] = [command_info["commands"]]
NormalizeCommands(command_info) ==
    IF command_info.commands.t = "dict"
    THEN [command_info EXCEPT !.commands = PyList(command_info.commands.v)]
    ELSE command_info

RECURSIVE NestedLoop(_, _, _, _, _)
\* for dict_field, nested_command_info in command_info.items(): st = [final, exc, nested];
\* the assignment to nested_command_info["commands"] writes into the shared field map
NestedLoop(st, i, host, task_result, entries) ==
    IF i > Len(entries) \/ st.exc # NoException THEN st
    ELSE LET info == NormalizeCommands(entries[i].info)
             r == perform_data_extraction(host, entries[i].field, info, task_result)
         IN  NestedLoop([final |-> Update(st.final, r.result_dict),
                         exc |-> r.exc,
                         nested |-> [st.nested EXCEPT ![i] = [field |-> entries[i].field, info |-> info]]],
                        i + 1, host, task_result, entries)

RECURSIVE FieldLoop(_, _, _, _)
\* for default_dict_field, command_info in command_jpaths[command_getter_type].items():
\* st = [final, exc, fields]; fields is the field map of the getter type, written in place
FieldLoop(st, i, host, task_result) ==
    IF i > Len(st.fields) \/ st.exc # NoException THEN st
    ELSE LET entry == st.fields[i]
         IN  IF Has(entry.info, "commands")
             THEN LET info == NormalizeCommands(entry.info)
                      r == perform_data_extraction(host, entry.field, info, task_result)
                  IN  FieldLoop([final |-> Update(st.final, r.result_dict),
                                 exc |-> r.exc,
                                 fields |-> [st.fields EXCEPT ![i] = [field |-> entry.field, info |-> info]]],
                                i + 1, host, task_result)
             ELSE LET n == NestedLoop([final |-> st.final, exc |-> NoException,
                                       nested |-> entry.info.nested],
                                      1, host, task_result, entry.info.nested)
                  IN  FieldLoop([final |-> n.final,
                                 exc |-> n.exc,
                                 fields |-> [st.fields EXCEPT ![i] =
                                                [field |-> entry.field, info |-> [nested |-> n.nested]]]],
                                i + 1, host, task_result)

\* the call extract_show_data(host, [task_result], command_getter_type) on the field map
\* command_jpaths: the value returned (final), the exception that left the call (exc) and the
\* field map after the call
extract_show_data(host, task_result, command_getter_type, command_jpaths) ==
    LET r == FieldLoop([final |-> EmptyDict, exc |-> NoException,
                        fields |-> command_jpaths[command_getter_type]],
                       1, host, task_result)
    IN  [final |-> r.final, exc |-> r.exc,
         command_jpaths |-> [command_jpaths EXCEPT ![command_getter_type] = r.fields]]

-----------------------------------------------------------------------------
(* Inputs of the extraction: field maps, hosts and task results *)

Hosts == {"r1", "r2"}

GetterTypes == {"device_onboarding", "network_importer"}

Command(name, jpath, post) ==
    IF post = "none" THEN [command |-> name, jpath |-> jpath]
    ELSE [command |-> name, jpath |-> jpath,
          post_processor |-> IF post = "obj" THEN Template("{{ obj }}", {"obj"})
                             ELSE Template("{{ undefined_var }}", {"undefined_var"})]

JpathChoices == {Template("serial", {}), Template("{{ undefined_var }}", {"undefined_var"})}

\* "bare": one command as a bare mapping; "list": the same in a list; "two": a second
\* command with the same name and another path behind it
CommandsOf(form, first) ==
    CASE form = "bare" -> PyDict(first)
      [] form = "list" -> PyList(<<first>>)
      [] form = "two" -> PyList(<<first, Command(first.command, Template("alt", {}), "none")>>)

SerialInfos ==
    {IF validator = "" THEN [commands |-> CommandsOf(form, Command("show version", jp, post))]
     ELSE [commands |-> CommandsOf(form, Command("show version", jp, post)),
           validator_pattern |-> validator] :
        form \in {"bare", "list", "two"}, jp \in JpathChoices,
        post \in {"none", "obj", "undefined"}, validator \in {"", "not None"}}

PlainInfos(name, path) ==
    {[commands |-> CommandsOf(form, Command(name, Template(path, {}), "none"))] :
        form \in {"bare", "list"}}

\* field maps: device_onboarding has the flat fields serial and hostname, network_importer
\* the nested field interfaces with the sub-field mtu
FieldMaps ==
    {[device_onboarding |-> <<[field |-> "serial", info |-> si], [field |-> "hostname", info |-> hi]>>,
      network_importer |-> <<[field |-> "interfaces",
                              info |-> [nested |-> <<[field |-> "mtu", info |-> mi]>>]]>>] :
        si \in SerialInfos, hi \in PlainInfos("show version", "hostname"),
        mi \in PlainInfos("show interfaces", "mtu")}

SerialValues ==
    {VStr("SN1"), VStr(""), VList(<<>>), VList(<<VStr("SN1")>>), VList(<<VDict({"serial"})>>),
     VList(<<VStr("SN1"), VStr("SN2")>>)}

\* parsed command outputs, as the answers they give to the path queries
Docs ==
    {[serial |-> v, alt |-> a, hostname |-> VStr("router"), mtu |-> VList(<<VStr("1500")>>)] :
        v \in SerialValues, a \in {VStr("ALT"), VStr("")}}
    \cup {[alt |-> VStr("ALT"), hostname |-> VStr("router")]}

PlainDoc ==
    [serial |-> VStr("SN1"), alt |-> VStr("ALT"), hostname |-> VStr("router"),
     mtu |-> VList(<<VStr("1500")>>)]

TaskResult(name, failed, kind, doc) ==
    [name |-> name, failed |-> failed, result |-> [kind |-> kind, doc |-> doc]]

\* what the command runner hands over: parsed output, output as a JSON string, a string
\* that is not JSON, and the result of a command that failed
TaskResults ==
    {TaskResult("show version", FALSE, "obj", d) : d \in Docs}
    \cup {TaskResult("show version", FALSE, "json", d) :
              d \in {PlainDoc, [PlainDoc EXCEPT !.serial = VList(<<VStr("SN1")>>)]}}
    \cup {TaskResult("show interfaces", FALSE, "obj", PlainDoc),
          TaskResult("show version", FALSE, "badjson", EmptyDict),
          TaskResult("show version", TRUE, "obj", PlainDoc),
          TaskResult("show interfaces", TRUE, "obj", PlainDoc)}

NoCall ==
    [host |-> "", getter |-> "", task_result |-> TaskResult("", TRUE, "badjson", EmptyDict),
     final |-> EmptyDict, exc |-> NoException]

ExtractShowData ==
    /\ calls < MaxCalls
    /\ \E host \in Hosts, task_result \in TaskResults, command_getter_type \in GetterTypes :
          \E r \in {extract_show_data(host, task_result, command_getter_type, platform_parsing_info)} :
              /\ platform_parsing_info' = r.command_jpaths
              /\ last_call' = [host |-> host, getter |-> command_getter_type,
                               task_result |-> task_result, final |-> r.final, exc |-> r.exc]
    /\ calls' = calls + 1
    /\ UNCHANGED parsing_info_before
    /\ UNCHANGED fvars

-----------------------------------------------------------------------------
(* Properties of format_results and of the platform normalizers *)

Index(d) == CHOOSE i \in 1..Len(order) : order[i] = d

\* the loop of format_results has passed the device
Formatted(d) == Index(d) < idx

IsFailed(r) == Has(r, "failed") /\ r.failed /\ Has(r, "failed_reason")

RawFieldKeys == ListFields \cup {"vrfs", "vrf_rds", "vrf_interfaces"}

FullyNormalized(r) == Has(r, "interfaces") /\ (DOMAIN r) \cap RawFieldKeys = {}

CanonicalFields ==
    {"mtu", "type", "ip_addresses", "mac_address", "description", "link_status", "lag",
     "untagged_vlan", "tagged_vlans", "vrf", "802.1Q_mode"}

DeclaresSupported(r) == Has(r, "platform") /\ r.platform \in SupportedPlatforms

\* the normalizer ran to its end for the device, deletions included
NormalizedCleanly(d) ==
    normalizer_result[d].called /\ normalizer_result[d].exc = NoException

\* the interface names the attribute lists of an aggregate mention
AttrNames(r) ==
    UNION {{GetList(r, f)[i].interface :
                i \in {j \in 1..Len(GetList(r, f)) : Has(GetList(r, f)[j], "interface")}} :
           f \in ListFields}

\* the (interface, vrf name, rd) memberships an aggregate declares
VrfMembers(r) ==
    IF Has(r, "vrfs")
    THEN LET vs == GetListOrNone(r, "vrfs")
         IN  UNION {{<<vs[i].interfaces[k], vs[i].name, vs[i].default_rd>> :
                        k \in 1..Len(vs[i].interfaces)} : i \in 1..Len(vs)}
    ELSE LET rds == GetListOrNone(r, "vrf_rds")
             ifs == GetListOrNone(r, "vrf_interfaces")
         IN  {<<ifs[p[1]].interface, rds[p[2]].name, rds[p[2]].default_rd>> :
                 p \in {q \in (1..Len(ifs)) \X (1..Len(rds)) : ifs[q[1]].id = rds[q[2]].id}}

\* the entries of an interfaces list that are keyed by a name
EntriesFor(interfaces, name) ==
    {i \in 1..Len(interfaces) : Has(interfaces[i], name)}

\* C1: after format_results every device record is either marked failed with a reason or
\* fully normalized (interfaces present, no raw per-field key left), and a record whose
\* normalizer hit an exception or a KeyError in its cleanup is the failed record.
C1_FailedOrNormalized ==
    \A d \in DOMAIN compiled_results :
        Formatted(d) =>
            /\ IsFailed(compiled_results[d]) \/ FullyNormalized(compiled_results[d])
            /\ normalizer_result[d].exc # NoException => IsFailed(compiled_results[d])

\* C2: a device record marked failed=true after format_results carries no interfaces list.
C2_FailedHasNoInterfaces ==
    \A d \in DOMAIN compiled_results :
        (Formatted(d) /\ Has(compiled_results[d], "failed") /\ compiled_results[d].failed)
            => ~Has(compiled_results[d], "interfaces")

\* C3: every interface name of any attribute list is in the interfaces output under its
\* canonical name with every canonical field present.
C3_AllFieldsPresent ==
    \A d \in DOMAIN compiled_results :
        (Formatted(d) /\ NormalizedCleanly(d) /\ ~IsFailed(compiled_results[d])) =>
            \A n \in AttrNames(input[d]) :
                \E i \in EntriesFor(compiled_results[d].interfaces, canonical_interface_name(n)) :
                    CanonicalFields \subseteq
                        DOMAIN compiled_results[d].interfaces[i][canonical_interface_name(n)]

\* C4: no exception leaves format_results: an exception of the platform lookup or of the
\* serial lookup is caught, the device's record gets failed=true and a failed_reason with the
\* exception text, the loop goes on to the remaining devices and the mapping returned has
\* the device keys of the input.
C4_NoExceptionEscapes ==
    /\ pc # "raised"
    /\ \A d \in DOMAIN compiled_results :
          (Formatted(d) /\ raised[d] # NoException) =>
              /\ IsFailed(compiled_results[d])
              /\ compiled_results[d].failed_reason = <<"Error formatting device: ", raised[d].arg>>
    /\ pc = "returned" =>
          /\ DOMAIN compiled_results = DOMAIN input
          /\ \A d \in DOMAIN compiled_results :
                Has(compiled_results[d], "failed") \/ Has(compiled_results[d], "serial")

\* a lookup raised for one device and a later device was normalized
C4_Witness ==
    /\ pc = "returned"
    /\ \E d1, d2 \in DOMAIN compiled_results :
          /\ Index(d1) < Index(d2)
          /\ raised[d1] = DeviceDoesNotExist
          /\ compiled_results[d1].failed_reason = <<"Error formatting device: ", DeviceDoesNotExist.arg>>
          /\ NormalizedCleanly(d2)
          /\ Has(compiled_results[d2], "interfaces")

\* C5: a device that declares an unsupported platform ends failed with the reason
\* "Unsupported platform <platform>" and without interfaces, with or without type data.
C5_UnsupportedPlatform ==
    \A d \in DOMAIN compiled_results :
        (Formatted(d) /\ Has(input[d], "platform") /\ input[d].platform \notin SupportedPlatforms) =>
            /\ IsFailed(compiled_results[d])
            /\ compiled_results[d].failed_reason = <<"Unsupported platform ", input[d].platform>>
            /\ ~Has(compiled_results[d], "interfaces")

\* C6: supported platform and type data present: an empty serial lookup leaves the record
\* failed with "Serial not found for device in Nautobot."; any other serial is on the
\* record when the normalizer receives it and is the record's serial after normalization.
C6_Serial ==
    \A d \in DOMAIN compiled_results :
        (Formatted(d) /\ DeclaresSupported(input[d]) /\ Has(input[d], "type")) =>
            /\ inventory[d] = "" =>
                  /\ IsFailed(compiled_results[d])
                  /\ compiled_results[d].failed_reason = <<"Serial not found for device in Nautobot.">>
            /\ inventory[d] \notin {"", DoesNotExist} =>
                  /\ Has(compiled_results[d], "serial")
                  /\ compiled_results[d].serial = inventory[d]
                  /\ normalizer_result[d].called
                  /\ IF normalizer_result[d].exc = NoException
                     THEN normalizer_result[d].ret.serial = inventory[d]
                     ELSE /\ Has(normalizer_result[d].ret.failed_reason.device, "serial")
                          /\ normalizer_result[d].ret.failed_reason.device.serial = inventory[d]

\* a device with a serial in the inventory was normalized and carries that serial
C6_Witness ==
    /\ pc = "returned"
    /\ \E d \in DOMAIN compiled_results :
          /\ DeclaresSupported(input[d]) /\ Has(input[d], "type")
          /\ inventory[d] = "SN1"
          /\ NormalizedCleanly(d)
          /\ compiled_results[d].interfaces # <<>>
          /\ compiled_results[d].serial = "SN1"

\* Scenario A: an IOS aggregate with only mtu and type data for Gi0/1, as an aggregate that
\* has no other key and as one whose other lists are empty
ScenarioA == DeviceInput("cisco_ios", {<<"mtu", NameGi>>, <<"type", NameGi>>}, "sparse")

ScenarioAEmptyLists == DeviceInput("cisco_ios", {<<"mtu", NameGi>>, <<"type", NameGi>>}, "all")

\* C7: normalizing Scenario A does not give a failed record and gives exactly one interface,
\* GigabitEthernet0/1, with mtu 1500, the mapped type and every other canonical field at
\* its default.
C7_ScenarioA ==
    \A d \in DOMAIN compiled_results :
        (Formatted(d) /\ input[d] \in {ScenarioA, ScenarioAEmptyLists} /\ inventory[d] = "SN1") =>
            /\ ~IsFailed(normalizer_result[d].ret)
            /\ Has(compiled_results[d], "interfaces")
            /\ Len(compiled_results[d].interfaces) = 1
            /\ Has(compiled_results[d].interfaces[1], NameGigabit)
            /\ LET info == compiled_results[d].interfaces[1][NameGigabit]
               IN  /\ CanonicalFields \subseteq DOMAIN info
                   /\ info.mtu = 1500
                   /\ info.type = map_interface_type("ethernetCsmacd")
                   /\ info.lag = ""
                   /\ info.untagged_vlan = EmptyDict
                   /\ info.tagged_vlans = <<>>
                   /\ info.vrf = EmptyDict
                   /\ info["802.1Q_mode"] = ""

\* C8: every member interface of every VRF has an entry in the interfaces output under its
\* canonical name (VLAN rewritten to Vlan) whose vrf is {name, rd} of that VRF.
C8_VrfMerged ==
    \A d \in DOMAIN compiled_results :
        (Formatted(d) /\ NormalizedCleanly(d) /\ ~IsFailed(compiled_results[d])) =>
            \A m \in VrfMembers(input[d]) :
                \E i \in EntriesFor(compiled_results[d].interfaces, VrfCanonicalName(m[1])) :
                    compiled_results[d].interfaces[i][VrfCanonicalName(m[1])].vrf
                        = [name |-> m[2], rd |-> m[3]]

\* C12: the interfaces list a normalizer produced for a device has at most one entry per
\* canonical interface name, also when the field lists spell the same interface differently.
C12_OneEntryPerName ==
    \A d \in DOMAIN compiled_results :
        (Formatted(d) /\ NormalizedCleanly(d) /\ ~IsFailed(compiled_results[d])) =>
            \A i, j \in 1..Len(compiled_results[d].interfaces) :
                i # j => (DOMAIN compiled_results[d].interfaces[i])
                             \cap (DOMAIN compiled_results[d].interfaces[j]) = {}

\* the outcome of format_results for the device when the mapping holds this device only
Alone(d) == LoopBody(input[d], inventory[d], Unbound)

\* C13: the final record of a device and the normalizer that ran for it depend only on the
\* device's own record and serial lookup: they are what format_results gives for a mapping
\* that holds this device only, whichever devices come before it.
C13_DeviceIndependent ==
    \A d \in DOMAIN compiled_results :
        Formatted(d) =>
            /\ compiled_results[d] = Alone(d).data
            /\ normalizer_result[d] = Alone(d).call

-----------------------------------------------------------------------------
(* Properties of the extraction *)

\* C9: extract_show_data leaves the shared field map as it was before the first call.
C9_FieldMapUnchanged == platform_parsing_info = parsing_info_before

\* C10: a query or template error while one field is extracted does not leave
\* extract_show_data, and the other fields of the device are still extracted: a
\* "show version" result that answers the hostname query yields the hostname.
C10_ErrorsStayLocal ==
    calls > 0 =>
        /\ last_call.exc = NoException
        /\ (/\ last_call.getter = "device_onboarding"
            /\ last_call.task_result.name = "show version"
            /\ ~last_call.task_result.failed
            /\ last_call.task_result.result.kind # "badjson"
            /\ Has(last_call.task_result.result.doc, "hostname"))
           => Has(last_call.final, "hostname")

\* the entry of the serial field in the shared field map and the commands it lists
SerialInfo == platform_parsing_info.device_onboarding[1].info

SerialCommands == SerialInfo.commands.v

\* the last call went through the device_onboarding fields with a "show version" result
\* that did not fail and could be read, and no exception left the call
SerialExtracted ==
    /\ calls > 0
    /\ last_call.getter = "device_onboarding"
    /\ last_call.task_result.name = "show version"
    /\ ~last_call.task_result.failed
    /\ last_call.task_result.result.kind # "badjson"
    /\ Has(last_call.task_result.result.doc, "serial")
    /\ last_call.exc = NoException

\* what the path query of the serial field answered
SerialAnswer == last_call.task_result.result.doc.serial

\* a value as it is returned for a command: rendered by the post-processing expression
\* when the command has one
Returned(cmd, value) ==
    IF Has(cmd, "post_processor") THEN VRendered(cmd.post_processor.src, value) ELSE value

\* C11: a path-query result that is a one-element list holding a scalar is returned as that
\* scalar, with or without a post-processing expression; a one-element list holding a mapping
\* stays wrapped in the list when the field declares no iterable type dict.
C11_SingletonUnwrap ==
    (/\ SerialExtracted
     /\ Len(SerialCommands) = 1
     /\ SerialAnswer.t = "list"
     /\ Len(SerialAnswer.items) = 1) =>
        /\ Has(last_call.final, "serial")
        /\ SerialAnswer.items[1].t = "str" =>
              last_call.final.serial = Returned(SerialCommands[1], SerialAnswer.items[1])
        /\ SerialAnswer.items[1].t = "dict" =>
              last_call.final.serial = Returned(SerialCommands[1], SerialAnswer)

\* the commands of the serial field that match the task result of the last call, in list order
Matching == SelectSeq(SerialCommands, LAMBDA c : c.command = last_call.task_result.name)

\* the processed value of one command for the task result of the last call
CandidateValue(cmd) ==
    Processed(cmd, Extracted(last_call.task_result, cmd.jpath.src).value, last_call.host).value

TruthyCandidates == SelectSeq(Matching, LAMBDA c : Truthy(CandidateValue(c)))

\* C14: for a field with validator_pattern "not None" the value stored is never falsy, it is
\* the processed value of the first matching command, in list order, whose processed value
\* is truthy, the field is absent when every candidate is falsy, and nothing is written
\* for the field when the task result is marked failed.
C14_ValidatorLoop ==
    (/\ calls > 0
     /\ last_call.getter = "device_onboarding"
     /\ Has(SerialInfo, "validator_pattern")
     /\ SerialInfo.validator_pattern = "not None") =>
        /\ Has(last_call.final, "serial") => Truthy(last_call.final.serial)
        /\ last_call.task_result.failed => ~Has(last_call.final, "serial")
        /\ (last_call.exc = NoException /\ ~last_call.task_result.failed) =>
              IF TruthyCandidates = <<>> THEN ~Has(last_call.final, "serial")
              ELSE /\ Has(last_call.final, "serial")
                   /\ last_call.final.serial = CandidateValue(Head(TruthyCandidates))

\* the first of two commands gave an empty serial and was skipped, the second was stored
C14_Witness ==
    /\ calls > 0
    /\ last_call.getter = "device_onboarding"
    /\ last_call.exc = NoException
    /\ Has(SerialInfo, "validator_pattern")
    /\ Len(Matching) = 2
    /\ ~Truthy(CandidateValue(Matching[1]))
    /\ Has(last_call.final, "serial")
    /\ last_call.final.serial = VStr("ALT")

-----------------------------------------------------------------------------
(* Specifications *)

DeviceNames == <<"d1", "d2", "d3", "d4">>

InitWith(devices, inputs) ==
    /\ order = devices
    /\ compiled_results \in [{devices[i] : i \in 1..Len(devices)} -> inputs]
    /\ inventory \in [{devices[i] : i \in 1..Len(devices)} -> SerialChoices]
    /\ input = compiled_results
    /\ platform = Unbound
    /\ idx = 1
    /\ pc = "loop"
    /\ normalizer_result = [d \in {devices[i] : i \in 1..Len(devices)} |-> NotCalled]
    /\ raised = [d \in {devices[i] : i \in 1..Len(devices)} |-> NoException]
    /\ platform_parsing_info = EmptyDict
    /\ parsing_info_before = EmptyDict
    /\ calls = 0
    /\ last_call = NoCall

\* format_results on a mapping with one device
Init == InitWith(SubSeq(DeviceNames, 1, 1), DeviceInputs)

\* format_results on a mapping with MaxDevices devices
InitMulti == InitWith(SubSeq(DeviceNames, 1, MaxDevices), MultiDeviceInputs)

\* extract_show_data calls on a shared field map
InitExtract ==
    /\ platform_parsing_info \in FieldMaps
    /\ parsing_info_before = platform_parsing_info
    /\ calls = 0
    /\ last_call = NoCall
    /\ order = <<>>
    /\ compiled_results = EmptyDict
    /\ inventory = EmptyDict
    /\ input = EmptyDict
    /\ platform = Unbound
    /\ idx = 1
    /\ pc = "returned"
    /\ normalizer_result = EmptyDict
    /\ raised = EmptyDict

Next == FormatDevice \/ Return

NextExtract == ExtractShowData

vars == <<compiled_results, inventory, platform, idx, pc, input, order,
          normalizer_result, raised, platform_parsing_info, parsing_info_before,
          calls, last_call>>

Spec == Init /\ [][Next]_vars

SpecMulti == InitMulti /\ [][Next]_vars

SpecExtract == InitExtract /\ [][NextExtract]_vars

====
